---- MODULE Spec2Model ----
(***************************************************************************)
(* fc-deploy: the dependency-layer reconciliation of setupLayers.          *)
(*                                                                         *)
(* Strings are sequences of tokens (each token a TLA+ string), so that     *)
(* String.prototype.includes is a real contiguous-subsequence test.  A     *)
(* fingerprint (an md5 hex digest, fixed length) is one token: two digests *)
(* contain one another only when they are equal.                           *)
(*                                                                         *)
(* A remote call is atomic: it either takes effect and answers, or fails   *)
(* and leaves the remote state as it was.                                  *)
(***************************************************************************)
EXTENDS Integers, Sequences, FiniteSets, TLC

\* ------------------------------------------------------------- bounds
MaxPaths == 2
NumTargets == 2
NumHashes == 2
MaxRefs == 3
MaxPublished == 4

\* -------------------------------------------------- program constants
\* new ListLayerVersionsRequest({ maxItems: 10 })
MaxItems == 10
\* retry(..., { retries: 3 })
Retries == 3

\* ------------------------------------------------------------ strings
\* The fingerprints the manifests can have, in the order of first use.
Fingerprints ==
  <<"f01", "f02", "f03", "f04", "f05", "f06", "f07", "f08", "f09", "f10", "f11", "f12">>

FingerprintSet == {Fingerprints[k] : k \in 1..Len(Fingerprints)}

FpIndex(h) == CHOOSE k \in 1..Len(Fingerprints) : Fingerprints[k] = h

\* What getHash answers for a target that was never deployed (README: data || "").
NoHash == ""

\* s.includes(t)
Includes(s, t) ==
  \E k \in 0..(Len(s) - Len(t)) : \A n \in 1..Len(t) : s[k + n] = t[n]

\* [a, b].join('/')
JoinSlash(a, b) == a \o <<"/">> \o b

\* Optional values: undefined, or a defined value.
Undefined == <<>>
Defined(x) == <<x>>

\* layerConfig.layerName, and the names of other layers a function may use:
\* an unrelated one, and one whose name starts with the managed name.
LayerName == <<"app">>
OtherLayerName == <<"base">>
LongerLayerName == <<"app", "-extra">>

\* A layer version's arn as the control plane forms it.
LayerArn(name, version) ==
  <<"acs:fc:layers/">> \o name \o <<"/versions/", ToString(version)>>

\* layerConfig.layerDescription as configured (the empty one included).
LayerDescriptions == {<<>>, <<"deps of app">>}

\* `node_modules@${params.curHash}.zip`
DepFileName(curHash) == <<"node_modules@", curHash, ".zip">>

\* `/fc-deploy/${params.layerName}/${depFileName}`
ObjectName(layerName, depFileName) ==
  <<"/", "fc-deploy/">> \o layerName \o <<"/">> \o depFileName

\* Mutant: the bundle is uploaded under its file name alone.
UploadName_bare(layerName, depFileName) == <<"/">> \o depFileName

\* The name given to ossClient.put: `/fc-deploy/${params.layerName}/${depFileName}`
UploadName(layerName, depFileName) ==
  <<"/", "fc-deploy/">> \o layerName \o <<"/">> \o depFileName

\* removePrecedingSlash(str)
removePrecedingSlash(str) ==
  IF Len(str) > 0 /\ str[1] = "/" THEN Tail(str) ELSE str

\* Mutant: the description is the configured text alone.
Description_noFileName(layerDescription, depFileName) ==
  IF layerDescription = <<>> THEN <<"fcd custom deps ">> ELSE layerDescription

\* [layerDescription || 'fcd自定义依赖打包 ', depFileName].join('/')
Description(layerDescription, depFileName) ==
  JoinSlash(IF layerDescription = <<>> THEN <<"fcd custom deps ">> ELSE layerDescription,
            depFileName)

\* ---------------------------------------------------- pure operations
\* Mutant: curHash is the promise of an unawaited getPackageDepsHash, which no
\* stored fingerprint is identical to.
everyEqual_unawaited(hashes, hash) == \A k \in 1..Len(hashes) : FALSE

\* prevHashs.every(hash => hash === curHash)
everyEqual(hashes, hash) == \A k \in 1..Len(hashes) : hashes[k] = hash

\* Mutant: the loop compares with a value no stored fingerprint is identical to.
sameHash_never(prevHash, hash) == FALSE

\* Mutant: the loop's test negated, prevHashs[i] !== curHash.
differsHash(prevHash, hash) == prevHash # hash

\* prevHashs[i] === curHash
sameHash(prevHash, hash) == prevHash = hash

\* The error code of the object store for a key that is not there, and the errors
\* a head call can fail with for another reason: their codes, and an error that
\* has no code (a network error).
NoSuchKey == "NoSuchKey"
HeadFailures == {Defined("RequestTimeout"), Defined("AccessDenied"), Defined("")}

\* Everything a head call can end with.
HeadAnswers == {Undefined, Defined(NoSuchKey)} \cup HeadFailures

\* client.head(objectName): no error when the object is there, NoSuchKey when not
head(bucket, objectName) ==
  IF objectName \in bucket THEN Undefined ELSE Defined(NoSuchKey)

\* Mutant: the existence check always answers false.
isObjectExist_never(error) == "false"

\* Mutant: every error of head is taken for absence (catch { return false }).
isObjectExist_swallowed(error) == IF error = Undefined THEN "true" ELSE "false"

\* isObjectExist: head answers (true), fails with code NoSuchKey (false), or fails
\* with another error, which is thrown again
isObjectExist(error) ==
  IF error = Undefined
    THEN "true"
    ELSE IF error[1] = NoSuchKey THEN "false" ELSE "throw"

\* Mutant: only the latest version is asked for (maxItems: 1).
listLayerVersions_latestOnly(all) ==
  [k \in 1..(IF Len(all) < 1 THEN Len(all) ELSE 1) |-> all[Len(all) + 1 - k]]

\* listLayerVersions(layerName, { maxItems: 10 }): the latest versions, newest first
listLayerVersions(all) ==
  [k \in 1..(IF Len(all) < MaxItems THEN Len(all) ELSE MaxItems) |-> all[Len(all) + 1 - k]]

\* Mutant: the description is compared with the fingerprint, not searched for it.
findPrevLayer_exact(existing, hash) ==
  LET hits == {k \in 1..Len(existing) : existing[k].description = <<hash>>}
  IN IF hits = {} THEN 0 ELSE CHOOSE k \in hits : \A m \in hits : k <= m

\* existingLayers?.body?.layers?.find(l => l.description?.includes(params.curHash)):
\* the index of the first such version, 0 when there is none
findPrevLayer(existing, hash) ==
  LET hits == {k \in 1..Len(existing) : Includes(existing[k].description, <<hash>>)}
  IN IF hits = {} THEN 0 ELSE CHOOSE k \in hits : \A m \in hits : k <= m

\* layers.findIndex(a => a.includes(layerName)): 0 stands for JavaScript's -1
findIndex(refs, layerName) ==
  LET hits == {k \in 1..Len(refs) : Includes(refs[k], layerName)}
  IN IF hits = {} THEN 0 ELSE CHOOSE k \in hits : \A m \in hits : k <= m

\* Mutant: the arn is always put in front, a found entry is left in place.
spliceLayer_alwaysUnshift(refs, layerName, layerArn) == <<layerArn>> \o refs

\* Mutant: an arn with no entry to replace is pushed to the end (push for unshift).
spliceLayer_push(refs, layerName, layerArn) ==
  LET hits == {k \in 1..Len(refs) : Includes(refs[k], layerName)}
  IN IF hits # {}
       THEN [refs EXCEPT ![CHOOSE k \in hits : \A m \in hits : k <= m] = layerArn]
       ELSE refs \o <<layerArn>>

\* if (layerIndex !== -1) layers[layerIndex] = layerArn else layers.unshift(layerArn)
spliceLayer(refs, layerName, layerArn) ==
  LET layerIndex == findIndex(refs, layerName)
  IN IF layerIndex # 0
       THEN [refs EXCEPT ![layerIndex] = layerArn]
       ELSE <<layerArn>> \o refs

\* ------------------------------------------------------ getPackageDepsHash
\* The manifest paths, in the order String comparison gives them.
Paths == <<"a/package.json", "b/package.json">>

PathSet == {Paths[k] : k \in 1..Len(Paths)}

PathRank(p) == CHOOSE k \in 1..Len(Paths) : Paths[k] = p

\* path.resolve(process.cwd(), 'package.json'): the project's own manifest
ProjectPkgPath == "package.json"

\* Every file getPackageDepsHash can be asked to read.
AllPaths == PathSet \cup {ProjectPkgPath}

\* Mutant: only the project's manifest has to be there, a listed manifest that
\* cannot be read counts as the text the model has for it.
readError_projectOnly(ps, readable) ==
  IF ProjectPkgPath \notin readable THEN Defined("ENOENT") ELSE Undefined

\* What fs.promises.readFile rejects with, of the project's manifest first and then
\* of any listed path: nothing when every file can be read
readError(ps, readable) ==
  IF ProjectPkgPath \notin readable
    THEN Defined("ENOENT")
    ELSE IF \E k \in 1..Len(ps) : ps[k] \notin readable
           THEN Defined("ENOENT")
           ELSE Undefined

\* Mutant: the paths are read in the order they were supplied in.
sortPaths_unsorted(ps) == ps

\* paths.slice().sort()
sortPaths(ps) == SortSeq(ps, LAMBDA a, b : PathRank(a) < PathRank(b))

\* Mutant: the content is hashed as read.
replaceCRLF_none(content) == content

\* content.replace(/\r\n/g, '\n'); a text is a sequence of characters
RECURSIVE replaceCRLF(_)
replaceCRLF(content) ==
  IF Len(content) = 0
    THEN content
    ELSE IF Len(content) >= 2 /\ content[1] = "\r" /\ content[2] = "\n"
           THEN <<"\n">> \o replaceCRLF(SubSeq(content, 3, Len(content)))
           ELSE <<content[1]>> \o replaceCRLF(Tail(content))

\* parts.join('\n')
RECURSIVE joinNewline(_)
joinNewline(parts) ==
  IF Len(parts) = 0
    THEN <<>>
    ELSE IF Len(parts) = 1
           THEN parts[1]
           ELSE parts[1] \o <<"\n">> \o joinNewline(Tail(parts))

\* (JSON.parse(projectPkgContent).version as string | undefined) || ''
versionOrEmpty(version) == IF version = Undefined THEN <<>> ELSE version[1]

\* Mutant: the project version is left out of the hashed text.
combinedContent_noVersion(ps, contents, version) ==
  LET sorted == sortPaths(ps)
      fileContents == [k \in 1..Len(sorted) |-> replaceCRLF(contents[sorted[k]])]
  IN joinNewline(fileContents)

\* [projectVersion, ...fileContents].join('\n')
combinedContent(ps, contents, version) ==
  LET sorted == sortPaths(ps)
      fileContents == [k \in 1..Len(sorted) |-> replaceCRLF(contents[sorted[k]])]
  IN joinNewline(<<versionOrEmpty(version)>> \o fileContents)

\* md5(content): the digest, taken to be injective, is the content under a tag
md5(content) == <<"md5">> \o content

getPackageDepsHash(ps, contents, version) == md5(combinedContent(ps, contents, version))

\* ------------------------------------------------ getFcClient, getOssClient
\* The credentials, endpoints, regions and buckets a caller can configure.
AccessKeyIds == {"AK1", "AK2"}
Endpoints == {"e1", "e2"}
Regions == {"r1", "r2"}
Buckets == {"b1", "b2"}

\* IFcConfig and IOssConfig, as far as the clients are made from them.
FcConfigs == [accessKeyId : AccessKeyIds, fcEndpoint : Endpoints, fcRegionId : Regions]
OssConfigs == [accessKeyId : AccessKeyIds, bucket : Buckets, region : Regions]

\* The configuration of every target of a batch and of the bucket (as in the README:
\* one credential for all).
FcConfig == [accessKeyId |-> "AK1", fcEndpoint |-> "e1", fcRegionId |-> "r1"]
OssConfig == [accessKeyId |-> "AK1", bucket |-> "b1", region |-> "r1"]

\* new FcClient(new AliConfig({ accessKeyId, endpoint, regionId })): a new object,
\* told from every other by its id
NewFcClient(params, id) ==
  [id |-> id, accessKeyId |-> params.accessKeyId, endpoint |-> params.fcEndpoint,
   regionId |-> params.fcRegionId]

\* new AliOSS({ accessKeyId, bucket, region })
NewOssClient(params, id) ==
  [id |-> id, accessKeyId |-> params.accessKeyId, bucket |-> params.bucket,
   region |-> params.region]

\* Mutant: a client is made for every call.
getFcClient_uncached(cache, params, id) ==
  [cache EXCEPT ![params.accessKeyId] = Defined(NewFcClient(params, id))]

\* if (!FC_CLIENTS[params.accessKeyId]) FC_CLIENTS[params.accessKeyId] = new FcClient(...):
\* the cache after the call; the call returns its entry for params.accessKeyId
getFcClient(cache, params, id) ==
  IF cache[params.accessKeyId] = Undefined
    THEN [cache EXCEPT ![params.accessKeyId] = Defined(NewFcClient(params, id))]
    ELSE cache

\* Mutant: a client is made for every call.
getOssClient_uncached(cache, params, id) ==
  [cache EXCEPT ![params.accessKeyId] = Defined(NewOssClient(params, id))]

\* if (!OSS_CLIENTS[params.accessKeyId]) OSS_CLIENTS[params.accessKeyId] = new AliOSS(...)
getOssClient(cache, params, id) ==
  IF cache[params.accessKeyId] = Undefined
    THEN [cache EXCEPT ![params.accessKeyId] = Defined(NewOssClient(params, id))]
    ELSE cache

\* ---------------------------------------------------------------- state
VARIABLES
  manifest,     \* the fingerprint of the manifests and project version on disk
  store,        \* the persisted fingerprint of each target (getHash / setHash)
  objects,      \* the object names present in the bucket
  versions,     \* the published versions of the managed layer, oldest first
  fcConfigs,    \* params.fcConfigs: the targets of a batch
  layerDescription, \* params.layerConfig.layerDescription
  pc,           \* where the run is
  curHash, prevHashs, layerObject, i, layers, fcLayer, attempts, resLayers,
  result,       \* what setupLayers returned
  err,          \* what was thrown
  calls,        \* how often each collaborator was called in this run
  applied,      \* the number of targets the orchestrator has updated
  rejection,    \* the message the last listLayerVersions was rejected with, if it was
  headError,    \* the error the run's head call was rejected with, if it was
  files,        \* the content of each manifest on disk
  projectVersion, \* the version field of the project's package.json
  paths,        \* the manifest paths handed to getPackageDepsHash
  hashed,       \* what getPackageDepsHash returned last
  hashedFrom,   \* the manifests and version it was computed from
  readable,     \* the files that are there and can be read
  hashError,    \* what getPackageDepsHash threw last, if it threw
  FC_CLIENTS,   \* the control-plane client made for each accessKeyId, if one was
  OSS_CLIENTS,  \* the object-store client made for each accessKeyId, if one was
  constructed,  \* the number of clients constructed in this process
  got,          \* the last call of getFcClient or getOssClient: its params, what it returned
  keys          \* the object names the run gave to head, to put and to createLayerVersion

vars == <<manifest, store, objects, versions, fcConfigs, layerDescription, pc, curHash, prevHashs,
          layerObject, i, layers, fcLayer, attempts, resLayers, result, err, calls,
          applied, rejection, headError, files, projectVersion, paths, hashed,
          hashedFrom, readable, hashError, FC_CLIENTS, OSS_CLIENTS, constructed, got,
          keys>>

\* What getPackageDepsHash reads and answers.
disk == <<files, projectVersion, paths, hashed, hashedFrom, readable, hashError>>

\* The process-wide client caches, and the last call of a getter.
clients == <<FC_CLIENTS, OSS_CLIENTS, constructed, got>>

\* No client has been asked for.
NoClients ==
  /\ FC_CLIENTS = [a \in AccessKeyIds |-> Undefined]
  /\ OSS_CLIENTS = [a \in AccessKeyIds |-> Undefined]
  /\ constructed = 0
  /\ got = Undefined

\* getFcClient(params) is called
getFcClient_Got(params) ==
  /\ FC_CLIENTS' = getFcClient(FC_CLIENTS, params, constructed + 1)
  /\ constructed' = IF FC_CLIENTS' # FC_CLIENTS THEN constructed + 1 ELSE constructed
  /\ got' = Defined([getter |-> "getFcClient", accessKeyId |-> params.accessKeyId,
                     params |-> <<params.fcEndpoint, params.fcRegionId>>,
                     client |-> FC_CLIENTS'[params.accessKeyId][1]])
  /\ UNCHANGED OSS_CLIENTS

\* getOssClient(params) is called
getOssClient_Got(params) ==
  /\ OSS_CLIENTS' = getOssClient(OSS_CLIENTS, params, constructed + 1)
  /\ constructed' = IF OSS_CLIENTS' # OSS_CLIENTS THEN constructed + 1 ELSE constructed
  /\ got' = Defined([getter |-> "getOssClient", accessKeyId |-> params.accessKeyId,
                     params |-> <<params.bucket, params.region>>,
                     client |-> OSS_CLIENTS'[params.accessKeyId][1]])
  /\ UNCHANGED FC_CLIENTS

remote == <<manifest, store, objects, versions, fcConfigs, layerDescription>>

NoCalls ==
  [getHash |-> 0, getOrUploadLayer |-> 0, head |-> 0, zip |-> 0, put |-> 0,
   getFunction |-> 0, listLayerVersions |-> 0, createLayerVersion |-> 0,
   published |-> 0, updateFunction |-> 0, setHash |-> 0]

NoKeys == [head |-> Undefined, put |-> Undefined, code |-> Undefined]

\* The run gives the object name to a collaborator.
Named(what, name) == [keys EXCEPT ![what] = Defined(name)]

NoLayerObject == [depFileName |-> <<>>, objectName |-> <<>>]

NoLayer == [layerName |-> <<>>, version |-> 0, description |-> <<>>, arn |-> <<>>]

Called(what) == [calls EXCEPT ![what] = @ + 1]

\* The locals of a run that has not started.
Fresh ==
  /\ curHash = NoHash
  /\ prevHashs = <<>>
  /\ layerObject = NoLayerObject
  /\ i = 0
  /\ layers = <<>>
  /\ fcLayer = NoLayer
  /\ attempts = 0
  /\ resLayers = <<>>
  /\ result = Undefined
  /\ err = ""
  /\ calls = NoCalls
  /\ applied = 0
  /\ rejection = Undefined
  /\ headError = Undefined
  /\ keys = NoKeys

\* No fingerprint has been computed from the manifests' texts.
NotHashing ==
  /\ files = [p \in PathSet |-> <<>>]
  /\ projectVersion = Undefined
  /\ paths = <<>>
  /\ hashed = Undefined
  /\ hashedFrom = Undefined
  /\ readable = AllPaths
  /\ hashError = Undefined
  /\ NoClients

InitTargets(n) ==
  /\ manifest = Fingerprints[1]
  /\ store = [t \in 1..NumTargets |-> NoHash]
  /\ objects = {}
  /\ versions = <<>>
  /\ fcConfigs = [k \in 1..n |-> k]
  /\ layerDescription \in LayerDescriptions
  /\ pc = "idle"
  /\ Fresh
  /\ NotHashing

Init == InitTargets(NumTargets)

Throw(message) ==
  /\ pc' = "thrown"
  /\ err' = message

\* ------------------------------------------------ setupLayers (the layer module)
\* curHash = await getPackageDepsHash(...); prevHashs = await Promise.all(getHash...);
\* every stored fingerprint equal: return { hash, layers: undefined }
setupLayers_Begin ==
  /\ pc = "idle"
  /\ readError(paths, readable) = Undefined
  /\ curHash' = manifest
  /\ prevHashs' = [k \in 1..Len(fcConfigs) |-> store[fcConfigs[k]]]
  /\ IF everyEqual(prevHashs', curHash')
       THEN /\ pc' = "returned"
            /\ result' = Defined([hash |-> curHash', layers |-> Undefined])
       ELSE /\ pc' = "getOrUploadLayer"
            /\ result' = Undefined
  /\ calls' = [calls EXCEPT !.getHash = @ + Len(fcConfigs)]
  /\ UNCHANGED <<disk, keys, clients, headError, rejection, remote, layerObject, i,
                 layers, fcLayer, attempts, resLayers, err, applied>>

\* await getPackageDepsHash(...) rejects, a manifest cannot be read: setupLayers
\* throws before getHash is called
setupLayers_GetPackageDepsHashFails ==
  /\ pc = "idle"
  /\ readError(paths, readable) # Undefined
  /\ hashError' = readError(paths, readable)
  /\ Throw("getPackageDepsHash")
  /\ UNCHANGED <<files, projectVersion, paths, hashed, hashedFrom, readable, clients,
                 keys, headError, rejection, remote, curHash, prevHashs, layerObject, i,
                 layers, fcLayer, attempts, resLayers, result, calls, applied>>

\* a getHash call rejects: Promise.all rejects, setupLayers throws
setupLayers_GetHashFails ==
  /\ pc = "idle"
  /\ readError(paths, readable) = Undefined
  /\ curHash' = manifest
  /\ Throw("getHash")
  /\ calls' = [calls EXCEPT !.getHash = @ + Len(fcConfigs)]
  /\ UNCHANGED <<disk, keys, clients, headError, rejection, remote, prevHashs,
                 layerObject, i, layers, fcLayer, attempts, resLayers, result, applied>>

\* if (!fs.existsSync(nodeModulesPath)) throw
getOrUploadLayer_NoNodeModules ==
  /\ pc = "getOrUploadLayer"
  /\ calls' = Called("getOrUploadLayer")
  /\ Throw("node_modules")
  /\ getOssClient_Got(OssConfig)
  /\ UNCHANGED <<disk, keys, headError, rejection, remote, curHash, prevHashs,
                 layerObject, i, layers, fcLayer, attempts, resLayers, result, applied>>

\* isObjectExist({ client, objectName }): the object is there, return at once;
\* NoSuchKey, go on to zip; head fails for another reason, the error is thrown again
getOrUploadLayer_Head(error) ==
  /\ pc = "getOrUploadLayer"
  /\ LET depFileName == DepFileName(curHash)
         objectName == ObjectName(LayerName, depFileName)
         exists == isObjectExist(error)
     IN /\ error \in {head(objects, objectName)} \cup HeadFailures
        /\ IF exists = "throw"
             THEN /\ Throw("head")
                  /\ UNCHANGED <<layerObject, i>>
             ELSE /\ layerObject' = [depFileName |-> depFileName, objectName |-> objectName]
                  /\ err' = err
                  /\ IF exists = "true"
                       THEN pc' = "loop" /\ i' = 1
                       ELSE pc' = "zip" /\ i' = i
  /\ headError' = error
  /\ calls' = [calls EXCEPT !.getOrUploadLayer = @ + 1, !.head = @ + 1]
  /\ getOssClient_Got(OssConfig)
  /\ keys' = Named("head", ObjectName(LayerName, DepFileName(curHash)))
  /\ UNCHANGED <<disk, rejection, remote, curHash, prevHashs, layers, fcLayer, attempts,
                 resLayers, result, applied>>

\* await zip(nodeModulesPath, targetPath, ...)
getOrUploadLayer_Zip ==
  /\ pc = "zip"
  /\ calls' = Called("zip")
  /\ pc' = "put"
  /\ UNCHANGED <<disk, keys, clients, headError, rejection, remote, curHash, prevHashs,
                 layerObject, i, layers, fcLayer, attempts, resLayers, result, err,
                 applied>>

\* await params.ossClient.put(`/fc-deploy/${layerName}/${depFileName}`, targetPath, ...)
getOrUploadLayer_Put ==
  /\ pc = "put"
  /\ calls' = Called("put")
  /\ objects' = objects \cup {UploadName(LayerName, layerObject.depFileName)}
  /\ pc' = "loop"
  /\ i' = 1
  /\ keys' = Named("put", UploadName(LayerName, layerObject.depFileName))
  /\ UNCHANGED <<disk, clients, headError, rejection, manifest, store, versions,
                 fcConfigs, layerDescription, curHash, prevHashs, layerObject, layers,
                 fcLayer, attempts, resLayers, result, err, applied>>

\* Mutant: the upload is wrapped in a retry as well.
getOrUploadLayer_PutFails_retried ==
  /\ pc = "put"
  /\ calls.put <= Retries
  /\ calls' = Called("put")
  /\ IF calls.put < Retries
       THEN pc' = pc /\ err' = err
       ELSE Throw("put")
  /\ keys' = Named("put", UploadName(LayerName, layerObject.depFileName))
  /\ UNCHANGED <<disk, clients, headError, rejection, remote, curHash, prevHashs,
                 layerObject, i, layers, fcLayer, attempts, resLayers, result, applied>>

\* the upload rejects: not retried, setupLayers throws
getOrUploadLayer_PutFails ==
  /\ pc = "put"
  /\ calls' = Called("put")
  /\ Throw("put")
  /\ keys' = Named("put", UploadName(LayerName, layerObject.depFileName))
  /\ UNCHANGED <<disk, clients, headError, rejection, remote, curHash, prevHashs,
                 layerObject, i, layers, fcLayer, attempts, resLayers, result, applied>>

\* for (i ...) if (prevHashs[i] === curHash) { resLayers.push(undefined); continue }
setupLayers_Skip ==
  /\ pc = "loop"
  /\ i <= Len(fcConfigs)
  /\ sameHash(prevHashs[i], curHash)
  /\ resLayers' = Append(resLayers, Undefined)
  /\ i' = i + 1
  /\ UNCHANGED <<disk, keys, clients, headError, rejection, remote, pc, curHash,
                 prevHashs, layerObject, layers, fcLayer, attempts, result, err, calls,
                 applied>>

\* const layers = await updateLayers({ ... }): enter updateLayers for target i
setupLayers_Update ==
  /\ pc = "loop"
  /\ i <= Len(fcConfigs)
  /\ ~sameHash(prevHashs[i], curHash)
  /\ pc' = "getFunction"
  /\ UNCHANGED <<disk, keys, clients, headError, rejection, remote, curHash, prevHashs,
                 layerObject, i, layers, fcLayer, attempts, resLayers, result, err,
                 calls, applied>>

\* return { hash: curHash, layers: resLayers }
setupLayers_Return ==
  /\ pc = "loop"
  /\ i > Len(fcConfigs)
  /\ result' = Defined([hash |-> curHash, layers |-> Defined(resLayers)])
  /\ pc' = "returned"
  /\ UNCHANGED <<disk, keys, clients, headError, rejection, remote, curHash, prevHashs,
                 layerObject, i, layers, fcLayer, attempts, resLayers, err, calls,
                 applied>>

\* ------------------------------------------------------------ updateLayers
\* fcInfo = await fcClient.getFunction(...); layers = fcInfo.body.layers || []
updateLayers_GetFunction(refs) ==
  /\ pc = "getFunction"
  /\ calls' = Called("getFunction")
  /\ layers' = refs
  /\ pc' = "listLayerVersions"
  /\ getFcClient_Got(FcConfig)
  /\ UNCHANGED <<disk, keys, headError, rejection, remote, curHash, prevHashs,
                 layerObject, i, fcLayer, attempts, resLayers, result, err, applied>>

\* Mutant: the failure is logged and the loop goes on to the next target.
updateLayers_GetFunctionFails_skipped ==
  /\ pc = "getFunction"
  /\ calls' = Called("getFunction")
  /\ err' = "getFunction"
  /\ resLayers' = Append(resLayers, Undefined)
  /\ i' = i + 1
  /\ pc' = "loop"
  /\ getFcClient_Got(FcConfig)
  /\ UNCHANGED <<disk, keys, headError, rejection, remote, curHash, prevHashs,
                 layerObject, layers, fcLayer, attempts, result, applied>>

updateLayers_GetFunctionFails ==
  /\ pc = "getFunction"
  /\ calls' = Called("getFunction")
  /\ Throw("getFunction")
  /\ getFcClient_Got(FcConfig)
  /\ UNCHANGED <<disk, keys, headError, rejection, remote, curHash, prevHashs,
                 layerObject, i, layers, fcLayer, attempts, resLayers, result, applied>>

\* -------------------------------------------------------- getOrCreateLayer
\* The version the control plane publishes for a createLayerVersion request.
NewVersion(description) ==
  [layerName |-> LayerName,
   version |-> Len(versions) + 1,
   description |-> description,
   arn |-> LayerArn(LayerName, Len(versions) + 1)]

\* What a control-plane answer can be like: complete, or with no arn or no
\* layerName in it.
Usability == {"usable", "no arn", "no layerName"}

\* A control-plane answer: the version as it is, or with that field missing.
Answer(version, usable) ==
  IF usable = "usable"
    THEN version
    ELSE IF usable = "no arn"
           THEN [version EXCEPT !.arn = <<>>]
           ELSE [version EXCEPT !.layerName = <<>>]

\* The messages a rejected listLayerVersions can carry: the layer does not exist,
\* another failure, and an error with no message.
LayerNotFoundMessage == <<"code: 404, ", "LayerNotFound", ", layer does not exist">>
ListErrors == {LayerNotFoundMessage, <<"code: 503, ", "ServiceUnavailable">>, <<>>}

\* Mutant: every rejection is taken for a missing layer.
isLayerNotFound_always(message) == TRUE

\* err?.message?.includes('LayerNotFound')
isLayerNotFound(message) == Includes(message, <<"LayerNotFound">>)

\* listLayerVersions answers; find the first listed version by description
getOrCreateLayer_List(usable) ==
  /\ pc = "listLayerVersions"
  /\ calls' = Called("listLayerVersions")
  /\ rejection' = Undefined
  /\ LET existingLayers == listLayerVersions(versions)
         prevLayer == findPrevLayer(existingLayers, curHash)
     IN IF prevLayer # 0
          THEN /\ fcLayer' = Answer(existingLayers[prevLayer], usable)
               /\ pc' = "validate"
          ELSE /\ fcLayer' = NoLayer
               /\ pc' = "createLayerVersion"
  /\ attempts' = 0
  /\ UNCHANGED <<disk, keys, clients, headError, remote, curHash, prevHashs,
                 layerObject, i, layers, resLayers, result, err, applied>>

\* listLayerVersions is rejected: LayerNotFound (answered for a layer with no
\* version) is caught as undefined, no version is found and one is published; any
\* other error is rethrown
getOrCreateLayer_ListFails(message) ==
  /\ pc = "listLayerVersions"
  /\ Includes(message, <<"LayerNotFound">>) => versions = <<>>
  /\ calls' = Called("listLayerVersions")
  /\ rejection' = Defined(message)
  /\ IF isLayerNotFound(message)
       THEN /\ fcLayer' = NoLayer
            /\ attempts' = 0
            /\ pc' = "createLayerVersion"
            /\ err' = err
       ELSE /\ Throw("listLayerVersions")
            /\ UNCHANGED <<fcLayer, attempts>>
  /\ UNCHANGED <<disk, keys, clients, headError, remote, curHash, prevHashs,
                 layerObject, i, layers, resLayers, result, applied>>

\* One more version may be published while the model's cap allows it.
VersionCap == MaxItems + 2

\* retry(() => fcClient.createLayerVersion(...)): an attempt that succeeds
getOrCreateLayer_Create(usable) ==
  /\ pc = "createLayerVersion"
  /\ Len(versions) < VersionCap
  /\ calls' = [calls EXCEPT !.createLayerVersion = @ + 1, !.published = @ + 1]
  /\ attempts' = attempts + 1
  /\ LET published == NewVersion(Description(layerDescription, layerObject.depFileName))
     IN /\ versions' = Append(versions, published)
        /\ fcLayer' = Answer(published, usable)
  /\ pc' = "validate"
  /\ keys' = Named("code", removePrecedingSlash(layerObject.objectName))
  /\ UNCHANGED <<disk, clients, headError, rejection, manifest, store, objects,
                 fcConfigs, layerDescription, curHash, prevHashs, layerObject, i,
                 layers, resLayers, result, err, applied>>

\* Mutant: one more retry than configured (the bound compared with <=).
getOrCreateLayer_CreateRetried_oneMore ==
  /\ pc = "createLayerVersion"
  /\ attempts <= Retries
  /\ calls' = Called("createLayerVersion")
  /\ attempts' = attempts + 1
  /\ keys' = Named("code", removePrecedingSlash(layerObject.objectName))
  /\ UNCHANGED <<disk, clients, headError, rejection, remote, pc, curHash, prevHashs,
                 layerObject, i, layers, fcLayer, resLayers, result, err, applied>>

\* an attempt that fails while retries are left: onRetry, then the next attempt
getOrCreateLayer_CreateRetried ==
  /\ pc = "createLayerVersion"
  /\ attempts < Retries
  /\ calls' = Called("createLayerVersion")
  /\ attempts' = attempts + 1
  /\ keys' = Named("code", removePrecedingSlash(layerObject.objectName))
  /\ UNCHANGED <<disk, clients, headError, rejection, remote, pc, curHash, prevHashs,
                 layerObject, i, layers, fcLayer, resLayers, result, err, applied>>

\* Mutant: the last error is logged and the target is passed over.
getOrCreateLayer_CreateExhausted_swallowed ==
  /\ pc = "createLayerVersion"
  /\ attempts >= Retries
  /\ calls' = Called("createLayerVersion")
  /\ attempts' = attempts + 1
  /\ err' = "createLayerVersion"
  /\ resLayers' = Append(resLayers, Undefined)
  /\ i' = i + 1
  /\ pc' = "loop"
  /\ keys' = Named("code", removePrecedingSlash(layerObject.objectName))
  /\ UNCHANGED <<disk, clients, headError, rejection, remote, curHash, prevHashs,
                 layerObject, layers, fcLayer, result, applied>>

\* an attempt that fails with no retry left: the error is thrown
getOrCreateLayer_CreateExhausted ==
  /\ pc = "createLayerVersion"
  /\ attempts >= Retries
  /\ calls' = Called("createLayerVersion")
  /\ attempts' = attempts + 1
  /\ Throw("createLayerVersion")
  /\ keys' = Named("code", removePrecedingSlash(layerObject.objectName))
  /\ UNCHANGED <<disk, clients, headError, rejection, remote, curHash, prevHashs,
                 layerObject, i, layers, fcLayer, resLayers, result, applied>>

\* Mutant: the validation is part of the retried publish, an invalid answer
\* counts as a failed attempt.
updateLayers_Invalid_retried ==
  /\ pc = "validate"
  /\ fcLayer.layerName = <<>> \/ fcLayer.arn = <<>>
  /\ pc' = "createLayerVersion"
  /\ UNCHANGED <<disk, keys, clients, headError, rejection, remote, curHash, prevHashs,
                 layerObject, i, layers, fcLayer, attempts, resLayers, result, err,
                 calls, applied>>

\* if (!layerName) throw ...; if (!layerArn) throw ...
updateLayers_Invalid ==
  /\ pc = "validate"
  /\ fcLayer.layerName = <<>> \/ fcLayer.arn = <<>>
  /\ Throw("invalid layer version")
  /\ UNCHANGED <<disk, keys, clients, headError, rejection, remote, curHash, prevHashs,
                 layerObject, i, layers, fcLayer, attempts, resLayers, result, calls,
                 applied>>

\* splice the arn into layers, return it; setupLayers pushes it and goes on
updateLayers_Splice ==
  /\ pc = "validate"
  /\ fcLayer.layerName # <<>> /\ fcLayer.arn # <<>>
  /\ layers' = spliceLayer(layers, fcLayer.layerName, fcLayer.arn)
  /\ resLayers' = Append(resLayers, Defined(layers'))
  /\ i' = i + 1
  /\ pc' = "loop"
  /\ UNCHANGED <<disk, keys, clients, headError, rejection, remote, curHash, prevHashs,
                 layerObject, fcLayer, attempts, result, err, calls, applied>>

\* ------------------------------------------------------------ orchestrator
\* The deploy loop over the targets: updateFunction with the target's layers (when
\* defined), then setHash for a target whose layers changed.
deploy_UpdateFunction ==
  /\ pc = "returned"
  /\ applied < Len(fcConfigs)
  /\ applied' = applied + 1
  /\ LET res == result[1]
         changed == res.layers # Undefined /\ res.layers[1][applied'] # Undefined
     IN /\ store' = IF changed THEN [store EXCEPT ![fcConfigs[applied']] = res.hash]
                               ELSE store
        /\ calls' = [calls EXCEPT !.updateFunction = @ + 1,
                                  !.setHash = IF changed THEN @ + 1 ELSE @]
  /\ getFcClient_Got(FcConfig)
  /\ UNCHANGED <<disk, keys, headError, rejection, manifest, objects, versions,
                 fcConfigs, layerDescription, pc, curHash, prevHashs, layerObject, i,
                 layers, fcLayer, attempts, resLayers, result, err>>

\* updateFunction rejects: deploy throws before the target's setHash
deploy_UpdateFunctionFails ==
  /\ pc = "returned"
  /\ applied < Len(fcConfigs)
  /\ pc' = "deployFailed"
  /\ err' = "updateFunction"
  /\ calls' = Called("updateFunction")
  /\ getFcClient_Got(FcConfig)
  /\ UNCHANGED <<disk, keys, headError, rejection, remote, curHash, prevHashs,
                 layerObject, i, layers, fcLayer, attempts, resLayers, result, applied>>

\* The run is over (returned and applied, or thrown); the next one starts afresh.
Exit ==
  /\ \/ pc \in {"thrown", "deployFailed"}
     \/ pc = "returned" /\ applied = Len(fcConfigs)
  /\ pc' = "idle"
  /\ curHash' = NoHash
  /\ prevHashs' = <<>>
  /\ layerObject' = NoLayerObject
  /\ i' = 0
  /\ layers' = <<>>
  /\ fcLayer' = NoLayer
  /\ attempts' = 0
  /\ resLayers' = <<>>
  /\ result' = Undefined
  /\ err' = ""
  /\ calls' = NoCalls
  /\ applied' = 0
  /\ rejection' = Undefined
  /\ headError' = Undefined
  /\ hashError' = Undefined
  /\ got' = Undefined
  /\ keys' = NoKeys
  /\ UNCHANGED <<files, projectVersion, paths, hashed, hashedFrom, readable, remote,
                 FC_CLIENTS, OSS_CLIENTS, constructed>>

\* ------------------------------------------------------------- environment
\* The fingerprints a run has left a trace of.
UsedFingerprints ==
  {h \in FingerprintSet :
     \/ \E t \in DOMAIN store : store[t] = h
     \/ ObjectName(LayerName, DepFileName(h)) \in objects
     \/ \E k \in 1..Len(versions) : Includes(versions[k].description, <<h>>)}

\* Between runs a manifest or the project version is edited: the fingerprint becomes
\* one used before, or the next new one (fingerprints are named in the order runs
\* first see them).
EditManifest(h) ==
  /\ pc = "idle"
  /\ h # manifest
  /\ \A k \in 1..(FpIndex(h) - 1) : Fingerprints[k] \in UsedFingerprints
  /\ manifest' = h
  /\ UNCHANGED <<disk, keys, clients, headError, rejection, store, objects, versions,
                 fcConfigs, layerDescription, pc, curHash, prevHashs, layerObject, i,
                 layers, fcLayer, attempts, resLayers, result, err, calls, applied>>

\* ------------------------------------------------------------------ inputs
OtherRef == LayerArn(OtherLayerName, 1)
LongerRef == LayerArn(LongerLayerName, 1)
RefPool == {OtherRef, LongerRef, LayerArn(LayerName, 1), LayerArn(LayerName, 2)}

\* Every reference list of at most n entries.
RefLists(n) == UNION {[1..k -> RefPool] : k \in 0..n}

\* The lists a function has in the runs of several targets.
FunctionLayers ==
  {<<>>, <<OtherRef, LayerArn(LayerName, 1)>>, <<LongerRef, LayerArn(LayerName, 1)>>}

FirstFingerprints(n) == {Fingerprints[k] : k \in 1..n}

\* -------------------------------------------------------------------- runs
Steps ==
  \/ setupLayers_Begin
  \/ \E error \in HeadAnswers : getOrUploadLayer_Head(error)
  \/ getOrUploadLayer_Zip
  \/ getOrUploadLayer_Put
  \/ setupLayers_Skip
  \/ setupLayers_Update
  \/ setupLayers_Return
  \/ updateLayers_Splice
  \/ deploy_UpdateFunction
  \/ Exit

Failures ==
  \/ setupLayers_GetHashFails
  \/ getOrUploadLayer_NoNodeModules
  \/ getOrUploadLayer_PutFails
  \/ updateLayers_GetFunctionFails
  \/ \E message \in ListErrors : getOrCreateLayer_ListFails(message)
  \/ getOrCreateLayer_CreateRetried
  \/ getOrCreateLayer_CreateExhausted
  \/ updateLayers_Invalid
  \/ deploy_UpdateFunctionFails

Next ==
  \/ Steps
  \/ Failures
  \/ \E refs \in FunctionLayers : updateLayers_GetFunction(refs)
  \/ \E usable \in Usability : getOrCreateLayer_List(usable)
  \/ \E usable \in Usability : getOrCreateLayer_Create(usable)
  \/ \E h \in FirstFingerprints(NumHashes) : EditManifest(h)

Spec == Init /\ [][Next]_vars

\* ------------------------------------------- updateLayers (helpers.ts)
\* helpers.ts has the same setupLayers and getOrUploadLayer; its updateLayers
\* publishes for every target, with no listLayerVersions before it.
\* (params.layerConfig.layerDescription || 'fcd自定义依赖打包 ') + depFileName
helpers_Description(description, depFileName) ==
  (IF description = <<>> THEN <<"fcd custom deps ">> ELSE description) \o depFileName

\* fcInfo = await fcClient.getFunction(...); layers = fcInfo.body.layers || []
helpers_updateLayers_GetFunction(refs) ==
  /\ pc = "getFunction"
  /\ calls' = Called("getFunction")
  /\ layers' = refs
  /\ attempts' = 0
  /\ pc' = "createLayerVersion"
  /\ getFcClient_Got(FcConfig)
  /\ UNCHANGED <<disk, keys, headError, rejection, remote, curHash, prevHashs,
                 layerObject, i, fcLayer, resLayers, result, err, applied>>

\* retry(() => fcClient.createLayerVersion(...)): an attempt that succeeds
helpers_updateLayers_Create(usable) ==
  /\ pc = "createLayerVersion"
  /\ Len(versions) < MaxPublished
  /\ calls' = [calls EXCEPT !.createLayerVersion = @ + 1, !.published = @ + 1]
  /\ attempts' = attempts + 1
  /\ LET published ==
           NewVersion(helpers_Description(layerDescription, layerObject.depFileName))
     IN /\ versions' = Append(versions, published)
        /\ fcLayer' = Answer(published, usable)
  /\ pc' = "validate"
  /\ keys' = Named("code", layerObject.objectName)
  /\ UNCHANGED <<disk, clients, headError, rejection, manifest, store, objects,
                 fcConfigs, layerDescription, curHash, prevHashs, layerObject, i,
                 layers, resLayers, result, err, applied>>

\* an attempt that fails: retried while retries are left, else the error is thrown
helpers_updateLayers_CreateFails ==
  /\ pc = "createLayerVersion"
  /\ calls' = Called("createLayerVersion")
  /\ attempts' = attempts + 1
  /\ IF attempts < Retries
       THEN pc' = pc /\ err' = err
       ELSE Throw("createLayerVersion")
  /\ keys' = Named("code", layerObject.objectName)
  /\ UNCHANGED <<disk, clients, headError, rejection, remote, curHash, prevHashs,
                 layerObject, i, layers, fcLayer, resLayers, result, applied>>

NextHelpers ==
  \/ setupLayers_Begin
  \/ \E error \in HeadAnswers : getOrUploadLayer_Head(error)
  \/ getOrUploadLayer_Zip
  \/ getOrUploadLayer_Put
  \/ setupLayers_Skip
  \/ setupLayers_Update
  \/ setupLayers_Return
  \/ \E refs \in FunctionLayers : helpers_updateLayers_GetFunction(refs)
  \/ \E usable \in Usability : helpers_updateLayers_Create(usable)
  \/ helpers_updateLayers_CreateFails
  \/ updateLayers_Invalid
  \/ updateLayers_Splice
  \/ deploy_UpdateFunction
  \/ deploy_UpdateFunctionFails
  \/ Exit
  \/ \E h \in FirstFingerprints(NumHashes) : EditManifest(h)

\* The runs of helpers.ts.
SpecHelpers == Init /\ [][NextHelpers]_vars

\* ------------------------------------------ deploy and setupLayers (index.ts)
\* index.ts deploys one function: its setupLayers has one stored fingerprint, names
\* the archive after the time of day, and calls setHash itself.
\* dayjs().format('YYYYMMDD-HHmmss') at the runs
Stamps == {"20240101-120000", "20240101-120001"}

\* ossConfig.subDir
SubDir == <<"layers">>

\* `node_modules@${dayjs().format('YYYYMMDD-HHmmss')}.zip`
index_DepFileName(stamp) == <<"node_modules@", stamp, ".zip">>

\* params.ossConfig.subDir ? `/${subDir}/${depFileName}` : `/${depFileName}`
index_ObjectName(subDir, depFileName) ==
  IF subDir # <<>> THEN <<"/">> \o subDir \o <<"/">> \o depFileName
                   ELSE <<"/">> \o depFileName

\* deploy: compressCodeToBase64, then setupLayers up to the comparison of the
\* fingerprints: equal, setupLayers returns undefined.  result keeps what setupLayers
\* returned as the layers of the one target, next to curHash.
index_deploy_Begin ==
  /\ pc = "idle"
  /\ curHash' = manifest
  /\ prevHashs' = <<store[fcConfigs[1]]>>
  /\ calls' = Called("getHash")
  /\ IF curHash' = prevHashs'[1]
       THEN /\ pc' = "returned"
            /\ result' = Defined([hash |-> curHash', layers |-> Undefined])
       ELSE /\ pc' = "getFunction"
            /\ result' = Undefined
  /\ UNCHANGED <<disk, keys, clients, headError, rejection, remote, layerObject, i,
                 layers, fcLayer, attempts, resLayers, err, applied>>

\* compressCodeToBase64: if (!fs.existsSync(distPath)) throw
index_deploy_NoDist ==
  /\ pc = "idle"
  /\ Throw("dist")
  /\ UNCHANGED <<disk, keys, clients, headError, rejection, remote, curHash, prevHashs,
                 layerObject, i, layers, fcLayer, attempts, resLayers, result, calls,
                 applied>>

\* await params.layerConfig.getHash() rejects
index_setupLayers_GetHashFails ==
  /\ pc = "idle"
  /\ curHash' = manifest
  /\ calls' = Called("getHash")
  /\ Throw("getHash")
  /\ UNCHANGED <<disk, keys, clients, headError, rejection, remote, prevHashs,
                 layerObject, i, layers, fcLayer, attempts, resLayers, result, applied>>

\* fcInfo = await fcClient.getFunction(...); layers = fcInfo.body.layers || []
index_setupLayers_GetFunction(refs) ==
  /\ pc = "getFunction"
  /\ calls' = Called("getFunction")
  /\ layers' = refs
  /\ pc' = "zip"
  /\ getFcClient_Got(FcConfig)
  /\ UNCHANGED <<disk, keys, headError, rejection, remote, curHash, prevHashs,
                 layerObject, i, fcLayer, attempts, resLayers, result, err, applied>>

index_setupLayers_GetFunctionFails ==
  /\ pc = "getFunction"
  /\ calls' = Called("getFunction")
  /\ Throw("getFunction")
  /\ getFcClient_Got(FcConfig)
  /\ UNCHANGED <<disk, keys, headError, rejection, remote, curHash, prevHashs,
                 layerObject, i, layers, fcLayer, attempts, resLayers, result, applied>>

\* if (!fs.existsSync(nodeModulesPath)) throw
index_setupLayers_NoNodeModules ==
  /\ pc = "zip"
  /\ Throw("node_modules")
  /\ UNCHANGED <<disk, keys, clients, headError, rejection, remote, curHash, prevHashs,
                 layerObject, i, layers, fcLayer, attempts, resLayers, result, calls,
                 applied>>

\* depFileName from the time of day; await zip(nodeModulesPath, targetPath, ...)
index_setupLayers_Zip(stamp) ==
  /\ pc = "zip"
  /\ calls' = Called("zip")
  /\ LET depFileName == index_DepFileName(stamp)
     IN layerObject' = [depFileName |-> depFileName,
                        objectName |-> index_ObjectName(SubDir, depFileName)]
  /\ pc' = "put"
  /\ UNCHANGED <<disk, keys, clients, headError, rejection, remote, curHash, prevHashs,
                 i, layers, fcLayer, attempts, resLayers, result, err, applied>>

\* await ossClient.put(subDir ? `/${subDir}/${depFileName}` : `/${depFileName}`, ...)
index_setupLayers_Put ==
  /\ pc = "put"
  /\ calls' = Called("put")
  /\ objects' = objects \cup {layerObject.objectName}
  /\ attempts' = 0
  /\ pc' = "createLayerVersion"
  /\ UNCHANGED <<disk, keys, clients, headError, rejection, manifest, store, versions,
                 fcConfigs, layerDescription, curHash, prevHashs, layerObject, i,
                 layers, fcLayer, resLayers, result, err, applied>>

index_setupLayers_PutFails ==
  /\ pc = "put"
  /\ calls' = Called("put")
  /\ Throw("put")
  /\ UNCHANGED <<disk, keys, clients, headError, rejection, remote, curHash, prevHashs,
                 layerObject, i, layers, fcLayer, attempts, resLayers, result, applied>>

\* retry(() => fcClient.createLayerVersion(...)): an attempt that succeeds
index_setupLayers_Create(usable) ==
  /\ pc = "createLayerVersion"
  /\ Len(versions) < MaxPublished
  /\ calls' = [calls EXCEPT !.createLayerVersion = @ + 1, !.published = @ + 1]
  /\ attempts' = attempts + 1
  /\ LET published ==
           NewVersion(helpers_Description(layerDescription, layerObject.depFileName))
     IN /\ versions' = Append(versions, published)
        /\ fcLayer' = Answer(published, usable)
  /\ pc' = "validate"
  /\ UNCHANGED <<disk, keys, clients, headError, rejection, manifest, store, objects,
                 fcConfigs, layerDescription, curHash, prevHashs, layerObject, i,
                 layers, resLayers, result, err, applied>>

\* an attempt that fails: retried while retries are left, else the error is thrown
index_setupLayers_CreateFails ==
  /\ pc = "createLayerVersion"
  /\ calls' = Called("createLayerVersion")
  /\ attempts' = attempts + 1
  /\ IF attempts < Retries
       THEN pc' = pc /\ err' = err
       ELSE Throw("createLayerVersion")
  /\ UNCHANGED <<disk, keys, clients, headError, rejection, remote, curHash, prevHashs,
                 layerObject, i, layers, fcLayer, resLayers, result, applied>>

\* if (!layerName) throw ...; if (!layerArn) throw ...
index_setupLayers_Invalid ==
  /\ pc = "validate"
  /\ fcLayer.layerName = <<>> \/ fcLayer.arn = <<>>
  /\ Throw("invalid layer version")
  /\ UNCHANGED <<disk, keys, clients, headError, rejection, remote, curHash, prevHashs,
                 layerObject, i, layers, fcLayer, attempts, resLayers, result, calls,
                 applied>>

\* await params.layerConfig.setHash(curHash): the fingerprint is stored
index_setupLayers_SetHash ==
  /\ pc = "validate"
  /\ fcLayer.layerName # <<>> /\ fcLayer.arn # <<>>
  /\ calls' = Called("setHash")
  /\ store' = [store EXCEPT ![fcConfigs[1]] = curHash]
  /\ pc' = "splice"
  /\ UNCHANGED <<disk, keys, clients, headError, rejection, manifest, objects, versions,
                 fcConfigs, layerDescription, curHash, prevHashs, layerObject, i,
                 layers, fcLayer, attempts, resLayers, result, err, applied>>

\* setHash rejects: .catch(err => console.error(...)), setupLayers goes on
index_setupLayers_SetHashFails ==
  /\ pc = "validate"
  /\ fcLayer.layerName # <<>> /\ fcLayer.arn # <<>>
  /\ calls' = Called("setHash")
  /\ pc' = "splice"
  /\ UNCHANGED <<disk, keys, clients, headError, rejection, remote, curHash, prevHashs,
                 layerObject, i, layers, fcLayer, attempts, resLayers, result, err,
                 applied>>

\* the arn is spliced into layers; return layers
index_setupLayers_Splice ==
  /\ pc = "splice"
  /\ layers' = spliceLayer(layers, fcLayer.layerName, fcLayer.arn)
  /\ result' = Defined([hash |-> curHash, layers |-> Defined(<<Defined(layers')>>)])
  /\ pc' = "returned"
  /\ UNCHANGED <<disk, keys, clients, headError, rejection, remote, curHash, prevHashs,
                 layerObject, i, fcLayer, attempts, resLayers, err, calls, applied>>

\* deployResult = await fcClient.updateFunction(...)
index_deploy_UpdateFunction ==
  /\ pc = "returned"
  /\ applied < Len(fcConfigs)
  /\ calls' = Called("updateFunction")
  /\ applied' = applied + 1
  /\ getFcClient_Got(FcConfig)
  /\ UNCHANGED <<disk, keys, headError, rejection, remote, pc, curHash, prevHashs,
                 layerObject, i, layers, fcLayer, attempts, resLayers, result, err>>

\* updateFunction rejects: deploy throws
index_deploy_UpdateFunctionFails ==
  /\ pc = "returned"
  /\ applied < Len(fcConfigs)
  /\ calls' = Called("updateFunction")
  /\ pc' = "deployFailed"
  /\ err' = "updateFunction"
  /\ getFcClient_Got(FcConfig)
  /\ UNCHANGED <<disk, keys, headError, rejection, remote, curHash, prevHashs,
                 layerObject, i, layers, fcLayer, attempts, resLayers, result, applied>>

NextIndex ==
  \/ index_deploy_Begin
  \/ index_deploy_NoDist
  \/ index_setupLayers_GetHashFails
  \/ \E refs \in FunctionLayers : index_setupLayers_GetFunction(refs)
  \/ index_setupLayers_GetFunctionFails
  \/ index_setupLayers_NoNodeModules
  \/ \E stamp \in Stamps : index_setupLayers_Zip(stamp)
  \/ index_setupLayers_Put
  \/ index_setupLayers_PutFails
  \/ \E usable \in Usability : index_setupLayers_Create(usable)
  \/ index_setupLayers_CreateFails
  \/ index_setupLayers_Invalid
  \/ index_setupLayers_SetHash
  \/ index_setupLayers_SetHashFails
  \/ index_setupLayers_Splice
  \/ index_deploy_UpdateFunction
  \/ index_deploy_UpdateFunctionFails
  \/ Exit
  \/ \E h \in FirstFingerprints(NumHashes) : EditManifest(h)

\* The runs of index.ts's deploy, one function.
SpecIndex == InitTargets(1) /\ [][NextIndex]_vars

\* ------------------------------------- runs that overflow the listed window
NextWindow ==
  \/ setupLayers_Begin
  \/ \E error \in HeadAnswers : getOrUploadLayer_Head(error)
  \/ getOrUploadLayer_Zip
  \/ getOrUploadLayer_Put
  \/ setupLayers_Update
  \/ setupLayers_Return
  \/ updateLayers_GetFunction(<<>>)
  \/ getOrCreateLayer_List("usable")
  \/ getOrCreateLayer_Create("usable")
  \/ getOrCreateLayer_CreateRetried
  \/ updateLayers_Splice
  \/ deploy_UpdateFunction
  \/ deploy_UpdateFunctionFails
  \/ Exit
  \/ \E h \in FirstFingerprints(MaxItems + 1) : EditManifest(h)

\* One target, and as many fingerprints as it takes to push a version out of the
\* MaxItems versions that listLayerVersions answers with.
SpecWindow == InitTargets(1) /\ [][NextWindow]_vars

\* ------------------------------------------- runs over every reference list
NextSplice ==
  \/ setupLayers_Begin
  \/ \E error \in HeadAnswers : getOrUploadLayer_Head(error)
  \/ getOrUploadLayer_Zip
  \/ getOrUploadLayer_Put
  \/ setupLayers_Update
  \/ setupLayers_Return
  \/ \E refs \in RefLists(MaxRefs) : updateLayers_GetFunction(refs)
  \/ getOrCreateLayer_List("usable")
  \/ getOrCreateLayer_Create("usable")
  \/ updateLayers_Splice
  \/ deploy_UpdateFunction
  \/ Exit
  \/ \E h \in FirstFingerprints(NumHashes) : EditManifest(h)

\* One target whose function has any list of at most MaxRefs references.
SpecSplice == InitTargets(1) /\ [][NextSplice]_vars

\* --------------------------------------- calls of getPackageDepsHash alone
\* The texts a manifest can have: with and without a line break, LF and CRLF.
Texts == {<<>>, <<"x">>, <<"\n">>, <<"\r", "\n">>, <<"x", "\n">>, <<"x", "\r", "\n">>}

\* The version field of the project's package.json: missing, empty, or a version.
Versions == {Undefined, Defined(<<>>), Defined(<<"1">>)}

\* Every list of at most n manifest paths.
PathLists(n) == UNION {[1..k -> PathSet] : k \in 0..n}

\* The orderings of a list of paths.
Orderings(ps) ==
  {q \in [1..Len(ps) -> PathSet] :
     \A p \in PathSet :
       Cardinality({k \in 1..Len(ps) : q[k] = p}) = Cardinality({k \in 1..Len(ps) : ps[k] = p})}

\* The variables of a run, which a call of getPackageDepsHash alone leaves as they are.
run == <<remote, pc, curHash, prevHashs, layerObject, i, layers, fcLayer, attempts,
         resLayers, result, err, calls, applied, rejection, headError, clients,
         keys>>

InitHash ==
  /\ manifest = Fingerprints[1]
  /\ store = [t \in 1..NumTargets |-> NoHash]
  /\ objects = {}
  /\ versions = <<>>
  /\ fcConfigs = <<1>>
  /\ layerDescription = <<>>
  /\ pc = "idle"
  /\ Fresh
  /\ files \in [PathSet -> Texts]
  /\ projectVersion \in Versions
  /\ paths \in PathLists(MaxPaths)
  /\ hashed = Undefined
  /\ hashedFrom = Undefined
  /\ readable = AllPaths
  /\ hashError = Undefined
  /\ NoClients

\* await getPackageDepsHash(paths): the digest, or the error of a readFile
getPackageDepsHash_Call ==
  /\ LET error == readError(paths, readable)
     IN /\ hashError' = error
        /\ hashed' = IF error = Undefined
                       THEN Defined(getPackageDepsHash(paths, files, projectVersion))
                       ELSE Undefined
  /\ hashedFrom' = Defined([paths |-> paths, files |-> files, version |-> projectVersion,
                            readable |-> readable])
  /\ UNCHANGED <<run, files, projectVersion, paths, readable>>

\* A manifest is rewritten.
WriteFile(p, text) ==
  /\ files[p] # text
  /\ files' = [files EXCEPT ![p] = text]
  /\ UNCHANGED <<run, projectVersion, paths, hashed, hashedFrom, readable, hashError>>

\* The project's version field is edited.
WriteVersion(version) ==
  /\ projectVersion # version
  /\ projectVersion' = version
  /\ UNCHANGED <<run, files, paths, hashed, hashedFrom, readable, hashError>>

\* The caller lists the same manifests in another order.
Reorder(q) ==
  /\ q # paths
  /\ paths' = q
  /\ UNCHANGED <<run, files, projectVersion, hashed, hashedFrom, readable, hashError>>

NextHash ==
  \/ getPackageDepsHash_Call
  \/ \E p \in PathSet, text \in Texts : WriteFile(p, text)
  \/ \E version \in Versions : WriteVersion(version)
  \/ \E q \in Orderings(paths) : Reorder(q)

\* getPackageDepsHash over every disk and every list of paths.
SpecHash == InitHash /\ [][NextHash]_vars

\* --------------------------------------------- manifests that cannot be read
\* One target never deployed; any of the files may be missing.
InitRead ==
  /\ manifest = Fingerprints[1]
  /\ store = [t \in 1..NumTargets |-> NoHash]
  /\ objects = {}
  /\ versions = <<>>
  /\ fcConfigs = <<1>>
  /\ layerDescription = <<>>
  /\ pc = "idle"
  /\ Fresh
  /\ files = [p \in PathSet |-> <<"x">>]
  /\ projectVersion \in Versions
  /\ paths \in PathLists(MaxPaths)
  /\ hashed = Undefined
  /\ hashedFrom = Undefined
  /\ readable \in SUBSET AllPaths
  /\ hashError = Undefined
  /\ NoClients

\* A file is deleted (or made unreadable).
RemoveFile(p) ==
  /\ pc = "idle"
  /\ p \in readable
  /\ readable' = readable \ {p}
  /\ UNCHANGED <<run, files, projectVersion, paths, hashed, hashedFrom, hashError>>

\* A file is put back.
RestoreFile(p) ==
  /\ pc = "idle"
  /\ p \notin readable
  /\ readable' = readable \cup {p}
  /\ UNCHANGED <<run, files, projectVersion, paths, hashed, hashedFrom, hashError>>

\* getPackageDepsHash called alone, and as the first statement of setupLayers; of
\* the run that follows only its first steps.
NextRead ==
  \/ getPackageDepsHash_Call
  \/ \E p \in AllPaths : RemoveFile(p)
  \/ \E p \in AllPaths : RestoreFile(p)
  \/ \E version \in Versions : WriteVersion(version)
  \/ setupLayers_Begin
  \/ setupLayers_GetPackageDepsHashFails
  \/ setupLayers_GetHashFails
  \/ getOrUploadLayer_NoNodeModules
  \/ \E error \in HeadAnswers : getOrUploadLayer_Head(error)
  \/ Exit

SpecRead == InitRead /\ [][NextRead]_vars

\* ------------------------------------------------------- the client getters
\* getFcClient(params), called by any code of the process
getFcClient_Call(params) ==
  /\ pc = "idle"
  /\ getFcClient_Got(params)
  /\ UNCHANGED <<disk, keys, headError, rejection, remote, pc, curHash, prevHashs,
                 layerObject, i, layers, fcLayer, attempts, resLayers, result, err,
                 calls, applied>>

\* getOssClient(params), called by any code of the process
getOssClient_Call(params) ==
  /\ pc = "idle"
  /\ getOssClient_Got(params)
  /\ UNCHANGED <<disk, keys, headError, rejection, remote, pc, curHash, prevHashs,
                 layerObject, i, layers, fcLayer, attempts, resLayers, result, err,
                 calls, applied>>

NextClients ==
  \/ \E params \in FcConfigs : getFcClient_Call(params)
  \/ \E params \in OssConfigs : getOssClient_Call(params)

\* The getters called in any order with any configuration.
SpecClients == InitTargets(1) /\ [][NextClients]_vars

\* ================================================================ claims
ContainsFingerprint(version, h) == Includes(version.description, <<h>>)

\* The positions in versions of the MaxItems latest ones.
Listed == {k \in 1..Len(versions) : k > Len(versions) - MaxItems}

Targets == 1..Len(fcConfigs)

\* The layer a reference names: what stands between the prefix and "/versions/<n>".
LayerOfRef(ref) == SubSeq(ref, 2, Len(ref) - 2)

NotManaged(ref) == LayerOfRef(ref) # LayerName

\* The step in which updateLayers splices and returns.
SpliceStep == pc = "validate" /\ pc' = "loop"

\* The first entry of layers that contains the managed layer's name, 0 if none.
FirstMatch ==
  IF \E k \in 1..Len(layers) : Includes(layers[k], LayerName)
    THEN CHOOSE k \in 1..Len(layers) :
           /\ Includes(layers[k], LayerName)
           /\ \A m \in 1..(k - 1) : ~Includes(layers[m], LayerName)
    ELSE 0

\* C1: a run in which getHash answers the current fingerprint for every target makes
\* no call to the object store or the control plane and returns
\* { hash: curHash, layers: undefined }.
C1_NoOpConvergence ==
  (/\ pc # "idle"
   /\ err # "getHash"
   /\ applied = 0
   /\ \A k \in Targets : store[fcConfigs[k]] = curHash)
  => /\ pc \in {"returned", "deployFailed"}
     /\ \A what \in {"getOrUploadLayer", "head", "zip", "put", "getFunction",
                      "listLayerVersions", "createLayerVersion", "published"} :
          calls[what] = 0
     /\ result = Defined([hash |-> curHash, layers |-> Undefined])

C1_Witness ==
  /\ pc = "returned"
  /\ applied = 0
  /\ \A k \in Targets : store[fcConfigs[k]] = curHash
  /\ result = Defined([hash |-> curHash, layers |-> Undefined])

\* C2 as stated: for every fingerprint, at most one published version of the managed
\* layer has a description containing it.
C2_OneVersionPerFingerprint ==
  \A h \in FingerprintSet :
    Cardinality({k \in 1..Len(versions) : ContainsFingerprint(versions[k], h)}) <= 1

\* C2 amended: for every fingerprint, at most one of the MaxItems latest versions of
\* the managed layer has a description containing it (a fingerprint whose version
\* has left that window is published again).
C2_OneListedVersionPerFingerprint ==
  \A h \in FingerprintSet :
    Cardinality({k \in Listed : ContainsFingerprint(versions[k], h)}) <= 1

\* A run reuses a version although more than MaxItems versions exist.
C2_Witness ==
  /\ Len(versions) > MaxItems
  /\ pc = "validate"
  /\ calls.published = 0
  /\ ContainsFingerprint(fcLayer, curHash)

\* C3 as stated: whenever any published version's description contains the current
\* fingerprint, getOrCreateLayer returns such a version without calling
\* createLayerVersion, and it goes on to publish only when there is none.
C3_ReuseWheneverPublished ==
  [][(pc = "listLayerVersions" /\ pc' \in {"validate", "createLayerVersion"})
      => LET hits == {k \in 1..Len(versions) : ContainsFingerprint(versions[k], curHash)}
         IN IF hits # {}
              THEN /\ pc' = "validate"
                   /\ \E k \in hits : fcLayer'.version = versions[k].version
                                      /\ fcLayer'.arn \in {versions[k].arn, <<>>}
                   /\ versions' = versions
                   /\ calls'.createLayerVersion = calls.createLayerVersion
              ELSE pc' = "createLayerVersion"]_vars

\* C3 amended: whenever one of the MaxItems latest versions has a description
\* containing the current fingerprint, getOrCreateLayer returns that version without
\* calling createLayerVersion; when none of them has, it goes on to publish.
C3_ReuseWheneverListed ==
  [][(pc = "listLayerVersions" /\ pc' \in {"validate", "createLayerVersion"})
      => LET hits == {k \in Listed : ContainsFingerprint(versions[k], curHash)}
         IN IF hits # {}
              THEN /\ pc' = "validate"
                   /\ \E k \in hits : fcLayer'.version = versions[k].version
                                      /\ fcLayer'.arn \in {versions[k].arn, <<>>}
                   /\ versions' = versions
                   /\ calls'.createLayerVersion = calls.createLayerVersion
              ELSE pc' = "createLayerVersion"]_vars

\* getOrCreateLayer has returned a listed version that is not the latest one.
C3_Witness ==
  /\ pc = "validate"
  /\ calls.listLayerVersions = 1
  /\ calls.createLayerVersion = 0
  /\ fcLayer.version \in Listed
  /\ fcLayer.version < Len(versions)
  /\ ContainsFingerprint(fcLayer, curHash)

\* C4: in one run createLayerVersion succeeds at most once.
C4_SinglePublishPerBatch == calls.published <= 1

\* C5: getOrUploadLayer is called at most once in a run, and once when a target
\* changed; zip and put happen at most once, and not at all when the object was
\* there at the existence check.
C5_SingleUploadPerBatch ==
  /\ calls.getOrUploadLayer <= 1 /\ calls.head <= 1 /\ calls.zip <= 1 /\ calls.put <= 1
  /\ pc \in {"zip", "put", "loop", "getFunction", "listLayerVersions",
             "createLayerVersion", "validate"} => calls.getOrUploadLayer = 1
  /\ (pc \in {"returned", "deployFailed"} /\ result[1].layers # Undefined)
       => calls.getOrUploadLayer = 1
  /\ (/\ calls.head = 1
      /\ calls.put = 0
      /\ ObjectName(LayerName, DepFileName(curHash)) \in objects)
       => calls.zip = 0 /\ pc \notin {"zip", "put"}

\* Two targets changed, the object was not there: one zip and one put.
C5_Witness ==
  /\ pc = "returned"
  /\ result[1].layers # Undefined
  /\ \A k \in Targets : result[1].layers[1][k] # Undefined
  /\ Len(fcConfigs) >= 2
  /\ calls.zip = 1 /\ calls.put = 1 /\ calls.getOrUploadLayer = 1

\* C6: every list a run returns for a changed target holds one and the same arn of
\* a published version.
C6_OneVersionPerBatch ==
  (pc = "returned" /\ result[1].layers # Undefined)
  => \E k \in 1..Len(versions) :
       \A t \in Targets :
         result[1].layers[1][t] # Undefined
           => \E n \in 1..Len(result[1].layers[1][t][1]) :
                result[1].layers[1][t][1][n] = versions[k].arn

C8_ReferenceInsertion ==
  [][(SpliceStep /\ FirstMatch = 0)
      => /\ layers' = <<fcLayer.arn>> \o layers
         /\ resLayers' = Append(resLayers, Defined(layers'))]_vars

\* A list of MaxRefs entries came back one longer, the arn in front.
C8_Witness ==
  /\ pc = "loop"
  /\ i = 2
  /\ Len(layers) = MaxRefs + 1
  /\ layers[1] = fcLayer.arn
  /\ \A k \in 2..Len(layers) : layers[k] = OtherRef

\* C9: the list updateLayers returns has at most one entry of the managed layer, and
\* the entries of other layers are those of the input, in order.
C9_ListInvariant ==
  [][SpliceStep
      => /\ Cardinality({k \in 1..Len(layers') : LayerOfRef(layers'[k]) = LayerName}) <= 1
         /\ SelectSeq(layers', NotManaged) = SelectSeq(layers, NotManaged)]_vars

\* C10: a run that returns a list returns one element per target, in order:
\* undefined exactly for the targets whose stored fingerprint is the current one, and
\* for the others the function's list with the arn of a version of the current
\* fingerprint spliced in.
C10_PerTargetResults ==
  (pc = "returned" /\ applied = 0 /\ result[1].layers # Undefined)
  => LET res == result[1].layers[1]
     IN /\ Len(res) = Len(fcConfigs)
        /\ \A k \in Targets :
             /\ res[k] = Undefined <=> store[fcConfigs[k]] = curHash
             /\ res[k] # Undefined =>
                  \E refs \in FunctionLayers, n \in 1..Len(versions) :
                    /\ ContainsFingerprint(versions[n], curHash)
                    /\ res[k][1] = spliceLayer(refs, LayerName, versions[n].arn)

\* One target unchanged and one changed.
C10_Witness ==
  /\ pc = "returned"
  /\ applied = 0
  /\ result[1].layers # Undefined
  /\ \E k, m \in Targets :
       /\ result[1].layers[1][k] = Undefined
       /\ result[1].layers[1][m] # Undefined

\* C11: the stored fingerprint of a target changes only to the new fingerprint and
\* only once the target's updateFunction has succeeded; when a target's
\* updateFunction fails, its stored fingerprint is the one getHash answered at the
\* start of the run, so the next run finds the target changed.
C11_WriteBackOrdering ==
  [][\A k \in Targets :
       /\ store'[fcConfigs[k]] # store[fcConfigs[k]]
            => /\ store'[fcConfigs[k]] = curHash
               /\ applied' >= k
       /\ (pc' = "deployFailed" /\ pc # "deployFailed" /\ k = applied + 1)
            => store'[fcConfigs[k]] = prevHashs[k]]_vars

\* C12: when createLayerVersion has failed on every attempt of the retry budget, the
\* run has thrown, setupLayers has returned nothing, and setHash and updateFunction
\* have not been called: every target's stored fingerprint is what getHash answered.
C12_RetryExhaustion ==
  err = "createLayerVersion"
  => /\ pc = "thrown"
     /\ attempts = Retries + 1
     /\ result = Undefined
     /\ calls.setHash = 0
     /\ calls.updateFunction = 0
     /\ \A k \in Targets : store[fcConfigs[k]] = prevHashs[k]

\* In a run of several targets the publish has failed on every attempt.
C12_Witness ==
  /\ pc = "thrown"
  /\ err = "createLayerVersion"
  /\ Len(fcConfigs) >= 2
  /\ calls.published = 0
  /\ calls.createLayerVersion = Retries + 1

\* C13 as stated: within one resolution createLayerVersion is attempted at most
\* 3 times in total.
C13_AtMostThreeAttempts == attempts <= 3

\* C13 amended: within one resolution createLayerVersion is attempted at most
\* Retries + 1 times (the first attempt and Retries retries); a failed attempt is
\* followed by another one while fewer than Retries retries were made, and the
\* failure of the last attempt is thrown.
C13_BoundedPublishRetry ==
  [][/\ attempts' <= Retries + 1
     /\ (/\ pc = "createLayerVersion"
         /\ calls'.createLayerVersion = calls.createLayerVersion + 1
         /\ calls'.published = calls.published)
          => /\ attempts' = attempts + 1
             /\ versions' = versions
             /\ IF attempts < Retries
                  THEN pc' = "createLayerVersion" /\ err' = err
                  ELSE pc' = "thrown" /\ err' = "createLayerVersion"]_vars

\* The last attempt of a resolution succeeded after Retries failures.
C13_Witness ==
  /\ pc = "validate"
  /\ attempts = Retries + 1
  /\ calls.published = 1

\* C14: getOrUploadLayer starts with the existence check, and when an object exists
\* at the key it returns the location (unless the check itself fails), with no zip
\* and no put.
C14_ExistenceCheckFirst ==
  [][(/\ pc = "getOrUploadLayer"
      /\ pc' # pc
      /\ ObjectName(LayerName, DepFileName(curHash)) \in objects)
      => /\ calls'.head = calls.head + 1
         /\ err' # "head"
              => /\ pc' = "loop"
                 /\ layerObject'.objectName = ObjectName(LayerName, DepFileName(curHash))
                 /\ calls'.zip = calls.zip
                 /\ calls'.put = calls.put]_vars

\* The result of a run says that target k did not change.
NoChangeFor(k) ==
  result # Undefined
  /\ (result[1].layers = Undefined \/ result[1].layers[1][k] = Undefined)

\* getHash has answered the current fingerprint for target k: an earlier run updated
\* the target's function and wrote the fingerprint back, and the manifests and the
\* project version have that fingerprint still (or again).
Rerun(k) == k <= Len(prevHashs) /\ prevHashs[k] = curHash

\* C15: in a run that follows one which updated a target's function and wrote its
\* fingerprint back, the manifests and project version being the same, nothing is
\* compressed or uploaded, the target is not resolved again (no getFunction, no
\* listLayerVersions, no createLayerVersion for it), and what setupLayers returns has
\* undefined for the target; when this is so of every target no version is published.
C15_RerunIdempotence ==
  \A k \in Targets :
    (pc # "idle" /\ Rerun(k))
    => /\ calls.zip = 0
       /\ calls.put = 0
       /\ ~(i = k /\ pc \in {"getFunction", "listLayerVersions", "createLayerVersion",
                             "validate", "splice"})
       /\ pc \in {"returned", "deployFailed"} => NoChangeFor(k)
       /\ (\A t \in Targets : Rerun(t)) => calls.createLayerVersion = 0

\* The run after one in which the first target succeeded and the second did not:
\* undefined for the first, a list for the second.
C15_Witness ==
  /\ pc = "returned"
  /\ Len(fcConfigs) >= 2
  /\ Rerun(1)
  /\ result[1].layers # Undefined
  /\ result[1].layers[1][1] = Undefined
  /\ result[1].layers[1][2] # Undefined

\* The manifests and the version are those the last fingerprint was computed from.
SameDisk ==
  /\ hashedFrom # Undefined
  /\ hashedFrom[1].files = files
  /\ hashedFrom[1].version = projectVersion

\* C16: with the manifests' contents and the project version as they were when the
\* fingerprint was computed, getPackageDepsHash returns that fingerprint for every
\* ordering of the list of paths.
C16_FingerprintDeterminism ==
  SameDisk
  => \A q \in Orderings(paths) : getPackageDepsHash(q, files, projectVersion) = hashed[1]

\* Two manifests with different texts, now listed in the other order.
C16_Witness ==
  /\ SameDisk
  /\ Len(paths) = 2
  /\ files[paths[1]] # files[paths[2]]
  /\ hashedFrom[1].paths = <<paths[2], paths[1]>>

\* The listed manifests whose text differs from what the last fingerprint was
\* computed from, byte by byte, and whether the version differs.
ChangedFiles ==
  {p \in PathSet : (\E k \in 1..Len(paths) : paths[k] = p) /\ files[p] # hashedFrom[1].files[p]}

ChangedVersion == versionOrEmpty(projectVersion) # versionOrEmpty(hashedFrom[1].version)

\* The step in which the fingerprint is computed again, for the same list of paths.
Rehash == hashedFrom # Undefined /\ hashedFrom' # hashedFrom /\ hashedFrom[1].paths = paths

\* C17 as stated: the fingerprint computed again differs from the last one if and
\* only if a listed manifest's content or the project version has changed.
C17_FingerprintSensitivity ==
  [][Rehash => (hashed' # hashed <=> (ChangedFiles # {} \/ ChangedVersion))]_vars

\* The same, with every CRLF of a text read as LF.
ChangedTexts ==
  {p \in PathSet :
     /\ \E k \in 1..Len(paths) : paths[k] = p
     /\ replaceCRLF(files[p]) # replaceCRLF(hashedFrom[1].files[p])}

\* C17 amended: the fingerprint does not change when no listed manifest's text (CRLF
\* read as LF) and not the version has changed, and it changes when exactly one of
\* them has: one manifest's text, or the version alone.
C17_SensitivityToOneChange ==
  [][Rehash
      => /\ (ChangedTexts = {} /\ ~ChangedVersion) => hashed' = hashed
         /\ (Cardinality(ChangedTexts) = 1 /\ ~ChangedVersion) => hashed' # hashed
         /\ (ChangedTexts = {} /\ ChangedVersion) => hashed' # hashed]_vars

\* A fingerprint was computed with CRLF in both manifests; one of them has lost its
\* "x" since, and the fingerprint of the disk is another one.
C17_Witness ==
  /\ hashedFrom # Undefined
  /\ paths = Paths
  /\ hashedFrom[1].paths = paths
  /\ hashedFrom[1].files[paths[1]] = <<"x", "\r", "\n">>
  /\ files[paths[1]] = <<"\r", "\n">>
  /\ Cardinality(ChangedTexts) = 1
  /\ ~ChangedVersion
  /\ hashed[1] = <<"md5", "1", "\n", "x", "\n", "\n", "\n">>
  /\ getPackageDepsHash(paths, files, projectVersion) # hashed[1]

\* The changed targets among the first n.
ChangedUpTo(n) ==
  {k \in 1..Len(prevHashs) : k <= n /\ prevHashs[k] # curHash}

\* C18: a failed getFunction, a listLayerVersions rejected with another error than
\* LayerNotFound, a publish that failed on its last attempt and an invalid version
\* each make setupLayers throw at once; once it has thrown no call is made for any
\* target and nothing is returned, and a list that is returned has an element for
\* every target.
C18_FailFast ==
  [][/\ (\/ pc = "getFunction" /\ pc' # "listLayerVersions"
         \/ /\ pc = "listLayerVersions"
            /\ rejection' # Undefined
            /\ ~Includes(rejection'[1], <<"LayerNotFound">>)
         \/ pc = "createLayerVersion" /\ attempts >= Retries /\ versions' = versions
         \/ pc = "validate" /\ (fcLayer.layerName = <<>> \/ fcLayer.arn = <<>>))
          => /\ pc' = "thrown"
             /\ result' = Undefined
             /\ i' = i
             /\ resLayers' = resLayers
             /\ calls'.getFunction = Cardinality(ChangedUpTo(i))
     /\ pc = "thrown"
          => /\ pc' = "idle"
             /\ result = Undefined
             /\ remote' = remote
     /\ (result' # Undefined /\ result'[1].layers # Undefined)
          => Len(result'[1].layers[1]) = Len(fcConfigs)]_vars

\* The first target was resolved, the second one's getFunction failed.
C18_Witness ==
  /\ pc = "thrown"
  /\ err = "getFunction"
  /\ i = 2
  /\ Len(resLayers) = 1
  /\ resLayers[1] # Undefined
  /\ result = Undefined

\* C19: in a run getHash is called once per target, the existence check and the put
\* at most once, getFunction and listLayerVersions at most once per changed target
\* reached; when one of them fails, setupLayers throws in that step, with no second
\* call and no publish after it.
C19_RetryScope ==
  [][/\ calls'.getHash <= Len(fcConfigs)
     /\ calls'.head <= 1
     /\ calls'.put <= 1
     /\ calls'.getFunction <= Cardinality(ChangedUpTo(i)')
     /\ calls'.listLayerVersions <= Cardinality(ChangedUpTo(i)')
     /\ (err' # err /\ err' \in {"getHash", "head", "put", "getFunction", "listLayerVersions"})
          => /\ pc' = "thrown"
             /\ calls'[err'] = calls[err'] + (IF err' = "getHash" THEN Len(fcConfigs) ELSE 1)
             /\ calls'.createLayerVersion = calls.createLayerVersion
             /\ versions' = versions
     /\ pc = "thrown" => pc' = "idle" /\ versions' = versions]_vars

\* createLayerVersion was called again after a failure; every other call was made
\* once.
C19_Witness ==
  /\ pc = "validate"
  /\ calls.createLayerVersion = 2
  /\ calls.published = 1
  /\ calls.head = 1 /\ calls.put = 1 /\ calls.getFunction = 1
  /\ calls.listLayerVersions = 1

\* C20: when listLayerVersions is rejected with a message containing LayerNotFound,
\* getOrCreateLayer has no version and goes on to createLayerVersion, which publishes
\* the layer's first version; when it is rejected with anything else, setupLayers
\* throws and createLayerVersion is not called.
C20_LayerNotFound ==
  [][/\ (pc = "listLayerVersions" /\ rejection' # Undefined)
          => IF Includes(rejection'[1], <<"LayerNotFound">>)
               THEN /\ pc' = "createLayerVersion"
                    /\ fcLayer' = NoLayer
                    /\ attempts' = 0
                    /\ err' = err
                    /\ versions' = <<>>
               ELSE /\ pc' = "thrown"
                    /\ err' = "listLayerVersions"
                    /\ calls'.createLayerVersion = calls.createLayerVersion
     /\ (pc = "createLayerVersion" /\ rejection # Undefined /\ versions' # versions)
          => /\ Len(versions') = 1
             /\ fcLayer'.version = 1
             /\ ContainsFingerprint(versions'[1], curHash)
     /\ (pc = "thrown" /\ err = "listLayerVersions")
          => calls'.createLayerVersion = 0 /\ versions' = versions]_vars

\* The layer did not exist; its first version has been published.
C20_Witness ==
  /\ pc = "validate"
  /\ rejection = Defined(LayerNotFoundMessage)
  /\ Len(versions) = 1
  /\ fcLayer.arn = LayerArn(LayerName, 1)

\* C21: the existence check answers true when head answered (the run goes on to the
\* targets with no zip), false when head failed with code NoSuchKey and only then
\* (zip and put follow), and throws head's error in every other case; after that
\* throw the run has zipped, uploaded and published nothing.
C21_ExistenceCheckDiscrimination ==
  [][/\ calls'.head = calls.head + 1
          => /\ headError' = Undefined => pc' = "loop" /\ calls'.zip = 0
             /\ headError' = Defined(NoSuchKey) => pc' = "zip"
             /\ headError' \notin {Undefined, Defined(NoSuchKey)}
                  => /\ pc' = "thrown" /\ err' = "head"
                     /\ objects' = objects /\ versions' = versions
     /\ pc = "zip" => pc' = "put" /\ calls'.zip = 1 /\ headError = Defined(NoSuchKey)
     /\ pc = "put" => calls'.put = 1
     /\ (pc = "thrown" /\ err = "head")
          => /\ calls.zip = 0 /\ calls.put = 0 /\ calls.createLayerVersion = 0
             /\ pc' = "idle" /\ objects' = objects /\ versions' = versions]_vars

\* head failed for another reason than a missing object, for an object that is in the
\* bucket: the error was thrown.
C21_Witness ==
  /\ pc = "thrown"
  /\ err = "head"
  /\ headError = Defined("AccessDenied")
  /\ ObjectName(LayerName, DepFileName(curHash)) \in objects
  /\ calls.head = 1 /\ calls.zip = 0

\* C22: when the version updateLayers got (listed or just published) has no layerName
\* or no arn, updateLayers throws in that step: no call is made, createLayerVersion
\* least of all, the target's list is left as getFunction gave it, nothing is pushed to
\* the results and setupLayers returns nothing.
C22_InvalidLayerVersion ==
  [][/\ (pc = "validate" /\ (fcLayer.layerName = <<>> \/ fcLayer.arn = <<>>))
          => /\ pc' = "thrown"
             /\ err' = "invalid layer version"
             /\ calls' = calls
             /\ versions' = versions
             /\ layers' = layers
             /\ resLayers' = resLayers
             /\ result' = Undefined
     /\ (pc = "thrown" /\ err = "invalid layer version")
          => /\ pc' = "idle"
             /\ result = Undefined
             /\ versions' = versions
             /\ store' = store]_vars

\* The first target was resolved; for the second the listed version came with no
\* layerName, and the run threw.
C22_Witness ==
  /\ pc = "thrown"
  /\ err = "invalid layer version"
  /\ fcLayer.layerName = <<>>
  /\ fcLayer.arn # <<>>
  /\ i = 2
  /\ Len(resLayers) = 1
  /\ resLayers[1] # Undefined
  /\ calls.createLayerVersion = 1

\* C23: in one run the layer version is resolved once: listLayerVersions is called at
\* most once and createLayerVersion succeeds at most once, whatever the number of
\* changed targets; no target's list has been spliced when the version is resolved.
C23_ResolutionOncePerBatch ==
  /\ calls.listLayerVersions <= 1
  /\ calls.published <= 1
  /\ pc \in {"listLayerVersions", "createLayerVersion"}
       => \A k \in 1..Len(resLayers) : resLayers[k] = Undefined

\* C24: the version a successful createLayerVersion publishes is the layer's newest
\* and its description contains the run's fingerprint; a listLayerVersions that
\* answers later in the run, for the next changed target, finds that very version and
\* publishes nothing.
C24_PublishScanRoundTrip ==
  [][/\ (pc = "createLayerVersion" /\ versions' # versions)
          => /\ Len(versions') = Len(versions) + 1
             /\ SubSeq(versions', 1, Len(versions)) = versions
             /\ ContainsFingerprint(versions'[Len(versions')], curHash)
             /\ fcLayer'.version = Len(versions')
     /\ (/\ pc = "listLayerVersions"
         /\ calls.published = 1
         /\ calls'.listLayerVersions = calls.listLayerVersions + 1
         /\ rejection' = Undefined)
          => /\ pc' = "validate"
             /\ fcLayer'.version = Len(versions)
             /\ fcLayer'.description = versions[Len(versions)].description
             /\ versions' = versions]_vars

\* With no layerDescription configured: the first target published a version, the
\* second target's scan returned it.
C24_Witness ==
  /\ layerDescription = <<>>
  /\ pc = "validate"
  /\ i = 2
  /\ calls.published = 1
  /\ calls.listLayerVersions = 2
  /\ calls.createLayerVersion = 1
  /\ fcLayer.version = Len(versions)
  /\ ContainsFingerprint(fcLayer, curHash)

\* A file getPackageDepsHash reads, the project's manifest or a listed one, cannot
\* be read.
Unreadable ==
  ProjectPkgPath \notin readable \/ \E k \in 1..Len(paths) : paths[k] \notin readable

\* The step in which getPackageDepsHash is called, and the one in which setupLayers
\* is entered.
HashCall == hashedFrom' # hashedFrom

SetupLayersEntered == pc = "idle" /\ pc' # "idle"

\* C25 as stated: getPackageDepsHash fails, returning no fingerprint, when the
\* project's manifest has no version field or a file cannot be read, and only then;
\* setupLayers then throws without a call to a collaborator.
C25_ProjectVersionError ==
  [][/\ HashCall
          => ((hashed' = Undefined /\ hashError' # Undefined)
                <=> (projectVersion = Undefined \/ Unreadable))
     /\ (SetupLayersEntered /\ (projectVersion = Undefined \/ Unreadable))
          => pc' = "thrown" /\ err' = "getPackageDepsHash" /\ calls' = NoCalls]_vars

\* C25 amended: getPackageDepsHash fails, returning no fingerprint, exactly when the
\* project's manifest or a listed manifest cannot be read; with no version field it
\* returns the fingerprint it returns for an empty version.  When it fails, setupLayers
\* throws its error having called no collaborator and returns nothing; when it does
\* not, getHash is called for every target.
C25_ManifestReadError ==
  [][/\ HashCall
          => /\ (hashed' = Undefined /\ hashError' # Undefined) <=> Unreadable
             /\ (hashed' # Undefined /\ hashError' = Undefined) <=> ~Unreadable
             /\ (~Unreadable /\ projectVersion = Undefined)
                  => hashed'[1] = getPackageDepsHash(paths, files, Defined(<<>>))
     /\ SetupLayersEntered
          => IF Unreadable
               THEN /\ pc' = "thrown"
                    /\ err' = "getPackageDepsHash"
                    /\ hashError' # Undefined
                    /\ calls' = NoCalls
                    /\ result' = Undefined
               ELSE /\ calls'.getHash = Len(fcConfigs)
                    /\ err' # "getPackageDepsHash"
     /\ (pc = "thrown" /\ err = "getPackageDepsHash")
          => calls' = NoCalls /\ result' = Undefined /\ pc' \in {"thrown", "idle"}]_vars

\* A listed manifest is missing while the project's manifest is there with a version:
\* getPackageDepsHash has failed, and setupLayers has thrown with no call made.
C25_Witness ==
  /\ pc = "thrown"
  /\ err = "getPackageDepsHash"
  /\ ProjectPkgPath \in readable
  /\ projectVersion = Defined(<<"1">>)
  /\ Len(paths) = 2
  /\ paths[2] \notin readable
  /\ paths[1] \in readable
  /\ hashedFrom # Undefined
  /\ hashedFrom[1].readable = readable
  /\ hashed = Undefined
  /\ hashError # Undefined
  /\ calls = NoCalls

\* The accessKeyIds a cache has a client for.
Cached(cache) == {a \in AccessKeyIds : cache[a] # Undefined}

\* C26: a client once in a cache stays there as it is; a getter called for an
\* accessKeyId that has a client returns that client and constructs none, whatever
\* the endpoint, region or bucket of the call; called for one that has none it
\* constructs one client from the call's configuration.  So there are never more
\* clients constructed than accessKeyIds asked for, per getter.
C26_ClientCacheIdentity ==
  [][/\ \A a \in Cached(FC_CLIENTS) : FC_CLIENTS'[a] = FC_CLIENTS[a]
     /\ \A a \in Cached(OSS_CLIENTS) : OSS_CLIENTS'[a] = OSS_CLIENTS[a]
     /\ (got' # Undefined /\ got' # got)
          => LET before == IF got'[1].getter = "getFcClient" THEN FC_CLIENTS ELSE OSS_CLIENTS
                 after == IF got'[1].getter = "getFcClient" THEN FC_CLIENTS' ELSE OSS_CLIENTS'
                 a == got'[1].accessKeyId
             IN /\ after[a] = Defined(got'[1].client)
                /\ got'[1].client.accessKeyId = a
                /\ IF a \in Cached(before)
                     THEN /\ got'[1].client = before[a][1]
                          /\ constructed' = constructed
                     ELSE /\ constructed' = constructed + 1
                          /\ got'[1].client.id = constructed'
                          /\ got'[1].client \in {NewFcClient(c, constructed') : c \in FcConfigs}
                                           \cup {NewOssClient(c, constructed') : c \in OssConfigs}
     /\ constructed'
          = Cardinality(Cached(FC_CLIENTS')) + Cardinality(Cached(OSS_CLIENTS'))]_vars

\* getFcClient was called with another endpoint and region than the ones the cached
\* client of that accessKeyId was made with, and returned the cached client.
C26_Witness ==
  /\ got # Undefined
  /\ got[1].getter = "getFcClient"
  /\ got[1].accessKeyId = "AK2"
  /\ got[1].params = <<"e2", "r2">>
  /\ got[1].client.endpoint = "e1"
  /\ got[1].client.regionId = "r1"
  /\ got[1].client = FC_CLIENTS["AK2"][1]
  /\ Cached(OSS_CLIENTS) = AccessKeyIds
  /\ constructed = 3

\* Two object names that are equal, or equal but for one leading slash.
SameObject(a, b) == a = b \/ a = <<"/">> \o b \/ b = <<"/">> \o a

\* C27: the names a run gives to head, to put and to createLayerVersion (as the
\* version's code) are one object's name, with or without one leading slash: the name
\* made of the layer's name and the run's fingerprint; and the code of a version is an
\* object that is in the bucket.
C27_ArtifactReferenceConsistency ==
  LET given == {k \in {"head", "put", "code"} : keys[k] # Undefined}
      artifact == <<"fc-deploy/">> \o LayerName \o <<"/", "node_modules@", curHash, ".zip">>
  IN /\ \A k \in given : \A m \in given : SameObject(keys[k][1], keys[m][1])
     /\ \A k \in given : SameObject(keys[k][1], artifact)
     /\ "put" \in given => "head" \in given
     /\ "code" \in given
          => /\ "head" \in given
             /\ \E o \in objects : SameObject(o, keys.code[1])

\* The object was not there: it was checked for, uploaded, and named as the code of
\* the version published, there without the leading slash.
C27_Witness ==
  /\ pc = "validate"
  /\ keys.head # Undefined /\ keys.put # Undefined /\ keys.code # Undefined
  /\ keys.head[1] = keys.put[1]
  /\ keys.head[1] = <<"/">> \o keys.code[1]
  /\ calls.published = 1
  /\ keys.put[1] \in objects

====
